---- MODULE Spec2Model ----
(***************************************************************************)
(* Model of the pkger HTTP transport (src/pkger/http_server.go): the       *)
(* apply endpoint (HTTPServer.applyPkg), the export endpoint               *)
(* (HTTPServer.createPkg) and the encoding resolvers they use; and of the  *)
(* password update of the user transport (src/http/user_service.go:        *)
(* UserHandler.handlePutUserPassword).                                     *)
(*                                                                         *)
(* One behaviour is one request that has passed routing and reached its    *)
(* handler.  The collaborators a handler calls (body decoder, Parse,       *)
(* SVC.DryRun, SVC.Apply, SVC.CreatePkg, the response encoder) are the     *)
(* environment: every call is appended to `calls` with its arguments and   *)
(* its result, and the result is chosen from a small set.                  *)
(***************************************************************************)
EXTENDS Integers, Sequences, FiniteSets, TLC

----------------------------------------------------------------------------
(* Bounds of the model *)

MaxUrlLen == 3
MaxErrs == 2
MaxOrgIDs == 2
MaxResources == 1

----------------------------------------------------------------------------
(* Program constants *)

StatusOK == 200
StatusCreated == 201
StatusUnprocessableEntity == 422
StatusNoContent == 204

EncodingJSON == "json"
EncodingYAML == "yaml"
EncodingJsonnet == "jsonnet"
EncodingSource == "source"

EInvalid == "invalid"
EConflict == "conflict"
EUnprocessableEntity == "unprocessable entity"
EInternal == "internal error"
ENotFound == "not found"
EUnauthorized == "unauthorized"

----------------------------------------------------------------------------
(* Sequences of bounded length *)

SeqsUpTo(S, n) == UNION {[1..k -> S] : k \in 0..n}

----------------------------------------------------------------------------
(* Strings.  A content type is a sequence of characters; a URL is a       *)
(* sequence of tokens in which "/" and "." are tokens of their own, so    *)
(* that path.Ext can be computed the way the library computes it.         *)

UpperChars == {"J", "S", "O", "N", "Y", "A", "M", "L", "E", "T"}

LowerOf ==
  [c \in UpperChars |->
     CASE c = "J" -> "j" [] c = "S" -> "s" [] c = "O" -> "o" [] c = "N" -> "n"
       [] c = "Y" -> "y" [] c = "A" -> "a" [] c = "M" -> "m" [] c = "L" -> "l"
       [] c = "E" -> "e" [] c = "T" -> "t"]

\* strings.ToLower
ToLower(s) == [i \in DOMAIN s |-> IF s[i] \in UpperChars THEN LowerOf[s[i]] ELSE s[i]]

\* path.Ext: the suffix beginning at the final dot of the final
\* slash-separated element; empty if there is no dot.
RECURSIVE ExtFrom(_, _)
ExtFrom(p, i) ==
  IF i < 1 \/ p[i] = "/" THEN <<>>
  ELSE IF p[i] = "." THEN SubSeq(p, i, Len(p))
  ELSE ExtFrom(p, i - 1)

Ext(p) == ExtFrom(p, Len(p))

ctJsonnet == <<"j", "s", "o", "n", "n", "e", "t">>
ctJson == <<"j", "s", "o", "n">>
ctYml == <<"y", "m", "l">>
ctYaml == <<"y", "a", "m", "l">>

ContentTypes ==
  { <<>>, ctJsonnet, ctJson, ctYml, ctYaml,
    <<"J", "S", "O", "N">>, <<"Y", "a", "m", "l">>, <<"Y", "M", "L">>,
    <<"J", "s", "o", "n", "n", "e", "t">>, <<"t", "o", "m", "l">> }

UrlTokens == {"/", ".", "json", "jsonnet", "yml", "yaml", "pkg"}

URLs == SeqsUpTo(UrlTokens, MaxUrlLen)

PkgRemotes == [URL : URLs, ContentType : ContentTypes]

\* PkgRemote.Encoding, with a guard order in which every content-type test
\* precedes every extension test.
EncodingContentTypeFirst(p) ==
  LET ct == ToLower(p.ContentType)
      urlBase == Ext(p.URL)
  IN  CASE ct = ctJsonnet -> EncodingJsonnet
        [] ct = ctJson -> EncodingJSON
        [] ct = ctYml \/ ct = ctYaml -> EncodingYAML
        [] OTHER ->
             CASE urlBase = <<".", "jsonnet">> -> EncodingJsonnet
               [] urlBase = <<".", "json">> -> EncodingJSON
               [] urlBase = <<".", "yml">> \/ urlBase = <<".", "yaml">> -> EncodingYAML
               [] OTHER -> EncodingSource

\* PkgRemote.Encoding: a Go switch takes the first case whose guard holds.
Encoding(p) ==
  LET ct == ToLower(p.ContentType)
      urlBase == Ext(p.URL)
  IN  IF ct = ctJsonnet \/ urlBase = <<".", "jsonnet">> THEN EncodingJsonnet
      ELSE IF ct = ctJson \/ urlBase = <<".", "json">> THEN EncodingJSON
      ELSE IF ct = ctYml \/ ct = ctYaml \/ urlBase = <<".", "yml">> \/ urlBase = <<".", "yaml">>
           THEN EncodingYAML
      ELSE EncodingSource

\* Values of the request's Content-Type header; "" is an absent header.
HeaderValues ==
  {"", "application/x-jsonnet", "text/yml", "application/x-yaml",
   "application/json", "TEXT/YML"}

\* A resolver that matches the header without regard to case.
pkgEncodingCaseInsensitive(h) ==
  CASE h = "application/x-jsonnet" -> EncodingJsonnet
    [] h = "text/yml" \/ h = "TEXT/YML" \/ h = "application/x-yaml" -> EncodingYAML
    [] OTHER -> EncodingJSON

\* pkgEncoding: exact match on the Content-Type header.
pkgEncoding(h) ==
  CASE h = "application/x-jsonnet" -> EncodingJsonnet
    [] h = "text/yml" \/ h = "application/x-yaml" -> EncodingYAML
    [] OTHER -> EncodingJSON

----------------------------------------------------------------------------
(* Errors.  kind is the dynamic type of the error value: "nil", a          *)
(* "ParseError" (it implements ValidationErrs()), an "influxdb.Error" the  *)
(* handler builds, or any other "error" a collaborator returns.  wraps is  *)
(* the kind of the error held in the Err field of an influxdb.Error.       *)

ValidationErrVals == {"ve1", "ve2"}

ValidationErrSeqs == SeqsUpTo(ValidationErrVals, MaxErrs)

NilErr == [kind |-> "nil", code |-> "", msg |-> "", wraps |-> "nil", verrs |-> <<>>]

ParseErrors ==
  {[kind |-> "ParseError", code |-> "", msg |-> "", wraps |-> "nil", verrs |-> v] :
     v \in ValidationErrSeqs}

OtherErrors ==
  {[kind |-> "error", code |-> c, msg |-> "", wraps |-> "nil", verrs |-> <<>>] :
     c \in {EInternal, ENotFound}}

ServiceErrors == ParseErrors \cup OtherErrors

\* &influxdb.Error{Code: code, Msg: msg, Err: err}
InfluxError(code, msg, err) ==
  [kind |-> "influxdb.Error", code |-> code, msg |-> msg, wraps |-> err.kind,
   verrs |-> err.verrs]

\* newDecodeErr
newDecodeErr(enc, err) == InfluxError(EInvalid, "unable to unmarshal " \o enc, err)

\* IsParseErr (pkger, outside the transport file): the error is a ParseError.
IsParseErr(err) == err.kind = "ParseError"

\* convertParseErr: nil unless the error asserts to ParseError.
convertParseErr(err) == IF err.kind = "ParseError" THEN err.verrs ELSE <<>>

\* Status the HTTPErrorHandler writes for an error code.  Only the class is
\* fixed for a conflict, so the handler may write any of these.
StatusFor(code) ==
  CASE code = EInvalid -> {400}
    [] code = EUnprocessableEntity -> {422}
    [] code = EConflict -> {409, 422}
    [] code = EUnauthorized -> {401}
    [] code = ENotFound -> {404}
    [] OTHER -> {500}

\* influxdb.IDFromString: the strings that are well-formed identifiers.
IDStrings == {"", "not-an-id", "0000000000000001", "0000000000000002"}

WellFormedIDs == {"0000000000000001", "0000000000000002"}

IDFromString(s) ==
  IF s \in WellFormedIDs
  THEN [id |-> s, err |-> NilErr]
  ELSE [id |-> "", err |-> [kind |-> "error", code |-> EInvalid, msg |-> "",
                              wraps |-> "nil", verrs |-> <<>>]]

----------------------------------------------------------------------------
(* Opaque values *)

Diffs == {"diff1", "diff2"}
Summaries == {"sum1", "sum2"}
Pkgs == {"pkg1"}
RawPkgs == {"rawA", "rawB"}
SecretMaps == {"noSecrets", "secrets1"}
UserIDs == {"user1"}
Objects == {"obj1"}
Resources == {"res1", "res2"}

\* Remotes an apply request carries (PkgRemote.Encoding itself is explored
\* over all of PkgRemotes by SpecEncoding).
ReqRemotes ==
  [URL : {<<>>, <<"pkg", ".", "json">>, <<"pkg", ".", "yml">>, <<"pkg">>},
   ContentType : {<<>>, ctYaml, <<"J", "S", "O", "N">>}]

\* ReqApplyPkg
ReqApplyPkgs ==
  [kind : {"ReqApplyPkg"}, DryRun : BOOLEAN, OrgID : IDStrings, Remote : ReqRemotes,
   RawPkg : RawPkgs, Secrets : SecretMaps]

\* ReqCreatePkg
ReqCreatePkgs ==
  [kind : {"ReqCreatePkg"}, OrgIDs : SeqsUpTo(IDStrings, MaxOrgIDs),
   Resources : SeqsUpTo(Resources, MaxResources)]

NoReq == [kind |-> "none"]
NoBody == [kind |-> "none"]
NoRemote == [URL |-> <<>>, ContentType |-> <<>>]

\* RespApplyPkg as the JSON encoder renders it: Errors is tagged omitempty,
\* so the errors field is present only for a non-empty sequence.
RespApplyPkg(d, s, errs) ==
  [kind |-> "RespApplyPkg", diff |-> d, summary |-> s,
   hasErrors |-> Len(errs) > 0, errors |-> errs]

\* FromHTTPRequest / FromReader
FromHTTPRequest(url) == [from |-> "http", url |-> url, raw |-> ""]
FromReader(raw) == [from |-> "reader", url |-> <<>>, raw |-> raw]

----------------------------------------------------------------------------
VARIABLES
  endpoint,    \* which handler serves the request
  pc,          \* the handler's position
  header,      \* the request's Content-Type header
  ctxAuth,     \* user of the authorizer in the request context ("": none)
  encoding,    \* local: header-derived encoding
  reqBody,     \* local: decoded request body
  orgID,       \* local
  userID,      \* local
  parsedPkg,   \* local
  sum,         \* local
  diff,        \* local
  calls,       \* calls made to collaborators, in order, with their results
  status,      \* status code written to the ResponseWriter (0: none yet)
  respBody,    \* value handed to the response encoder
  errHandled,  \* errors handed to HandleHTTPError, in order
  fnRemote,    \* argument of a direct PkgRemote.Encoding call
  fnResult,    \* its result
  basicAuth,   \* the request's basic-auth credentials (password update)
  routeID,     \* the "id" route parameter (password update)
  putErr       \* the err result of putPassword

vars == <<endpoint, pc, header, ctxAuth, encoding, reqBody, orgID, userID, parsedPkg,
          sum, diff, calls, status, respBody, errHandled, fnRemote, fnResult,
          basicAuth, routeID, putErr>>

locals == <<encoding, reqBody, orgID, userID, parsedPkg, sum, diff>>
request == <<endpoint, header, ctxAuth>>
fnVars == <<fnRemote, fnResult>>
pwVars == <<basicAuth, routeID, putErr>>

\* r.BasicAuth(): ok is false when the header is missing or malformed.
NoBasicAuth == [ok |-> FALSE, user |-> "", pw |-> ""]

Call(fn, args, ret) == [fn |-> fn, args |-> args, ret |-> ret]

Called(fn) == \E i \in DOMAIN calls : calls[i].fn = fn

CallOf(fn) == calls[CHOOSE i \in DOMAIN calls : calls[i].fn = fn]

\* HTTPErrorHandler.HandleHTTPError: writes the status of the error's code
\* (a header already written stays) and an error body.
HandleHTTPError(e) ==
  /\ errHandled' = Append(errHandled, e)
  /\ \E s \in StatusFor(e.code) : status' = IF status = 0 THEN s ELSE status
  /\ UNCHANGED respBody

\* encResp: WriteHeader(code), then Encode(res); a failing Encode hands an
\* EInternal error to the error handler after the header is out.
encResp(code, res) ==
  /\ status' = IF status = 0 THEN code ELSE status
  /\ respBody' = res
  /\ \E encErr \in {NilErr} \cup OtherErrors :
       errHandled' = IF encErr = NilErr THEN errHandled
                     ELSE Append(errHandled, InfluxError(EInternal, "unable to marshal", encErr))

\* encJSONResp
encJSONResp(code, res) == encResp(code, res)

Init ==
  /\ endpoint \in {"apply", "create"}
  /\ pc = "decode"
  /\ header \in HeaderValues
  /\ ctxAuth \in {""} \cup UserIDs
  /\ encoding = EncodingJSON
  /\ reqBody = NoReq
  /\ orgID = ""
  /\ userID = ""
  /\ parsedPkg = ""
  /\ sum = ""
  /\ diff = ""
  /\ calls = <<>>
  /\ status = 0
  /\ respBody = NoBody
  /\ errHandled = <<>>
  /\ fnRemote = NoRemote
  /\ fnResult = ""
  /\ basicAuth = NoBasicAuth
  /\ routeID = ""
  /\ putErr = NilErr

----------------------------------------------------------------------------
(* POST /apply: HTTPServer.applyPkg, one action per collaborator call.     *)

DecodeErr == [kind |-> "error", code |-> "", msg |-> "syntax", wraps |-> "nil", verrs |-> <<>>]

\* decodeWithEncoding and the error return after it.
ApplyDecode ==
  /\ endpoint = "apply"
  /\ pc = "decode"
  /\ encoding' = pkgEncoding(header)
  /\ \E ret \in [body : ReqApplyPkgs, err : {NilErr}] \cup [body : {NoReq}, err : {DecodeErr}] :
       /\ calls' = Append(calls, Call("Decode", [encoding |-> encoding'], ret))
       /\ IF ret.err # NilErr
          THEN /\ HandleHTTPError(newDecodeErr(encoding', ret.err))
               /\ pc' = "done"
               /\ UNCHANGED reqBody
          ELSE /\ reqBody' = ret.body
               /\ pc' = "orgID"
               /\ UNCHANGED <<status, respBody, errHandled>>
  /\ UNCHANGED <<request, orgID, userID, parsedPkg, sum, diff, fnVars, pwVars>>

\* The org id step without the return that follows the error response.
ApplyOrgIDMissingReturn ==
  /\ endpoint = "apply"
  /\ pc = "orgID"
  /\ LET r == IDFromString(reqBody.OrgID)
     IN  /\ IF r.err # NilErr
            THEN HandleHTTPError(InfluxError(EConflict, "invalid organization ID provided", NilErr))
            ELSE UNCHANGED <<status, respBody, errHandled>>
         /\ orgID' = r.id
         /\ pc' = "auth"
  /\ UNCHANGED <<request, encoding, reqBody, userID, parsedPkg, sum, diff, calls, fnVars, pwVars>>

\* influxdb.IDFromString(reqBody.OrgID) and the error return after it.
ApplyOrgID ==
  /\ endpoint = "apply"
  /\ pc = "orgID"
  /\ LET r == IDFromString(reqBody.OrgID)
     IN  IF r.err # NilErr
         THEN /\ HandleHTTPError(InfluxError(EConflict, "invalid organization ID provided", NilErr))
              /\ pc' = "done"
              /\ UNCHANGED orgID
         ELSE /\ orgID' = r.id
              /\ pc' = "auth"
              /\ UNCHANGED <<status, respBody, errHandled>>
  /\ UNCHANGED <<request, encoding, reqBody, userID, parsedPkg, sum, diff, calls, fnVars, pwVars>>

NoAuthorizerErr ==
  [kind |-> "error", code |-> EUnauthorized, msg |-> "", wraps |-> "nil", verrs |-> <<>>]

\* The authorizer step without the return that follows the error response.
ApplyAuthMissingReturn ==
  /\ endpoint = "apply"
  /\ pc = "auth"
  /\ IF ctxAuth = ""
     THEN HandleHTTPError(NoAuthorizerErr)
     ELSE UNCHANGED <<status, respBody, errHandled>>
  /\ userID' = ctxAuth
  /\ pc' = "parse"
  /\ UNCHANGED <<request, encoding, reqBody, orgID, parsedPkg, sum, diff, calls, fnVars, pwVars>>

\* pctx.GetAuthorizer(r.Context()) and auth.GetUserID().
ApplyAuth ==
  /\ endpoint = "apply"
  /\ pc = "auth"
  /\ IF ctxAuth = ""
     THEN /\ HandleHTTPError(NoAuthorizerErr)
          /\ pc' = "done"
          /\ UNCHANGED userID
     ELSE /\ userID' = ctxAuth
          /\ pc' = "parse"
          /\ UNCHANGED <<status, respBody, errHandled>>
  /\ UNCHANGED <<request, encoding, reqBody, orgID, parsedPkg, sum, diff, calls, fnVars, pwVars>>

\* A resolver that decodes the remote resource with the header encoding.
PkgHeaderEncoding(r, enc) ==
  IF r.Remote.URL # <<>>
  THEN [encoding |-> enc, source |-> FromHTTPRequest(r.Remote.URL)]
  ELSE [encoding |-> enc, source |-> FromReader(r.RawPkg)]

\* ReqApplyPkg.Pkg: the arguments of the Parse call it makes.
Pkg(r, enc) ==
  IF r.Remote.URL # <<>>
  THEN [encoding |-> Encoding(r.Remote), source |-> FromHTTPRequest(r.Remote.URL)]
  ELSE [encoding |-> enc, source |-> FromReader(r.RawPkg)]

ParseResults == [pkg : Pkgs, err : {NilErr}] \cup [pkg : {""}, err : ServiceErrors]

\* A handler that stops only on errors that are not ParseErrors.
ParseFailedOnlyHard(err) == err # NilErr /\ ~IsParseErr(err)

\* The test after reqBody.Pkg(encoding): any error ends the request.
ParseFailed(err) == err # NilErr

\* reqBody.Pkg(encoding) and the error return after it.
ApplyParse ==
  /\ endpoint = "apply"
  /\ pc = "parse"
  /\ \E ret \in ParseResults :
       /\ calls' = Append(calls, Call("Parse", Pkg(reqBody, encoding), ret))
       /\ IF ParseFailed(ret.err)
          THEN /\ HandleHTTPError(InfluxError(EInvalid, "failed to parse package from provided URL",
                                               ret.err))
               /\ pc' = "done"
               /\ UNCHANGED parsedPkg
          ELSE /\ parsedPkg' = ret.pkg
               /\ pc' = "dryRun"
               /\ UNCHANGED <<status, respBody, errHandled>>
  /\ UNCHANGED <<request, encoding, reqBody, orgID, userID, sum, diff, fnVars, pwVars>>

DryRunResults == [sum : Summaries, diff : Diffs, err : {NilErr} \cup ServiceErrors]

\* A 422 body that leaves the validation errors out.
ValidationFailedRespNoErrors(d, s, err) ==
  [code |-> StatusUnprocessableEntity, res |-> RespApplyPkg(d, s, <<>>)]

\* The response to a DryRun that returned a ParseError.
ValidationFailedResp(d, s, err) ==
  [code |-> StatusUnprocessableEntity, res |-> RespApplyPkg(d, s, convertParseErr(err))]

\* A 200 body that leaves the diff out.
DryRunCompletedRespNoDiff(d, s) ==
  [code |-> StatusOK, res |-> RespApplyPkg("", s, <<>>)]

\* The response to a dry-run-only request.
DryRunCompletedResp(d, s) ==
  [code |-> StatusOK, res |-> RespApplyPkg(d, s, <<>>)]

\* A handler that never takes the dry-run-only exit.
OnlyDryRunIgnored(r) == FALSE

\* "if only a dry run, then we exit before anything destructive"
OnlyDryRun(r) == r.DryRun

\* s.svc.DryRun, the two error exits and the dry-run-only exit.
ApplyDryRun ==
  /\ endpoint = "apply"
  /\ pc = "dryRun"
  /\ \E ret \in DryRunResults :
       /\ calls' = Append(calls, Call("DryRun",
                                       [orgID |-> orgID, userID |-> userID, pkg |-> parsedPkg], ret))
       /\ sum' = ret.sum
       /\ diff' = ret.diff
       /\ IF IsParseErr(ret.err)
          THEN /\ LET resp == ValidationFailedResp(ret.diff, ret.sum, ret.err)
                  IN  encJSONResp(resp.code, resp.res)
               /\ pc' = "done"
          ELSE IF ret.err # NilErr
          THEN /\ HandleHTTPError(ret.err)
               /\ pc' = "done"
          ELSE IF OnlyDryRun(reqBody)
          THEN /\ LET resp == DryRunCompletedResp(ret.diff, ret.sum)
                  IN  encJSONResp(resp.code, resp.res)
               /\ pc' = "done"
          ELSE /\ pc' = "apply"
               /\ UNCHANGED <<status, respBody, errHandled>>
  /\ UNCHANGED <<request, encoding, reqBody, orgID, userID, parsedPkg, fnVars, pwVars>>

ApplyResults == [sum : Summaries, err : {NilErr} \cup ServiceErrors]

\* A 201 body that leaves the validation errors out.
AppliedRespNoErrors(d, s, err) ==
  [code |-> StatusCreated, res |-> RespApplyPkg(d, s, <<>>)]

\* The response to an Apply that returned no error or a ParseError.
AppliedResp(d, s, err) ==
  [code |-> StatusCreated, res |-> RespApplyPkg(d, s, convertParseErr(err))]

\* s.svc.Apply, its error exit and the final response.
ApplyApply ==
  /\ endpoint = "apply"
  /\ pc = "apply"
  /\ \E ret \in ApplyResults :
       /\ calls' = Append(calls, Call("Apply",
                                       [orgID |-> orgID, userID |-> userID, pkg |-> parsedPkg,
                                        secrets |-> reqBody.Secrets], ret))
       /\ sum' = ret.sum
       /\ IF ret.err # NilErr /\ ~IsParseErr(ret.err)
          THEN HandleHTTPError(ret.err)
          ELSE LET resp == AppliedResp(diff, sum', ret.err)
               IN  encJSONResp(resp.code, resp.res)
       /\ pc' = "done"
  /\ UNCHANGED <<request, encoding, reqBody, orgID, userID, parsedPkg, diff, fnVars, pwVars>>

----------------------------------------------------------------------------
(* POST /: HTTPServer.createPkg.                                           *)

\* CreateWithExistingResources / CreateWithAllOrgResources
CreateWithExistingResources(rs) == [opt |-> "CreateWithExistingResources", resources |-> rs, org |-> ""]
CreateWithAllOrgResources(id) == [opt |-> "CreateWithAllOrgResources", resources |-> <<>>, org |-> id]

\* A loop that ignores the parse error and adds an option for every entry.
RECURSIVE OrgOptsNoSkip(_)
OrgOptsNoSkip(ids) ==
  IF ids = <<>> THEN <<>>
  ELSE <<CreateWithAllOrgResources(IDFromString(Head(ids)).id)>> \o OrgOptsNoSkip(Tail(ids))

\* The loop over reqBody.OrgIDs: an id that does not parse is skipped.
RECURSIVE OrgOpts(_)
OrgOpts(ids) ==
  IF ids = <<>> THEN <<>>
  ELSE LET r == IDFromString(Head(ids))
       IN  IF r.err # NilErr THEN OrgOpts(Tail(ids))
           ELSE <<CreateWithAllOrgResources(r.id)>> \o OrgOpts(Tail(ids))

CreateOpts(r) == <<CreateWithExistingResources(r.Resources)>> \o OrgOpts(r.OrgIDs)

\* A check that rejects a request as soon as one of the two lists is empty
\* while the other is not.
NothingToExportMixed(r) == (Len(r.Resources) = 0) # (Len(r.OrgIDs) = 0)

\* "at least 1 resource or 1 org id must be provided"
NothingToExport(r) == Len(r.Resources) = 0 /\ Len(r.OrgIDs) = 0

\* pkgEncoding, the JSON decode of the body and the emptiness check.
CreateDecode ==
  /\ endpoint = "create"
  /\ pc = "decode"
  /\ encoding' = pkgEncoding(header)
  /\ \E ret \in [body : ReqCreatePkgs, err : {NilErr}] \cup [body : {NoReq}, err : {DecodeErr}] :
       /\ calls' = Append(calls, Call("Decode", [encoding |-> EncodingJSON], ret))
       /\ IF ret.err # NilErr
          THEN /\ HandleHTTPError(newDecodeErr("json", ret.err))
               /\ pc' = "done"
               /\ UNCHANGED reqBody
          ELSE /\ reqBody' = ret.body
               /\ IF NothingToExport(ret.body)
                  THEN /\ HandleHTTPError(InfluxError(EUnprocessableEntity,
                                            "at least 1 resource or 1 org id must be provided", NilErr))
                       /\ pc' = "done"
                  ELSE /\ pc' = "createPkg"
                       /\ UNCHANGED <<status, respBody, errHandled>>
  /\ UNCHANGED <<request, orgID, userID, parsedPkg, sum, diff, fnVars, pwVars>>

\* RespCreatePkg with the Content-Type the handler sets for it.
RespCreatePkg(objs, enc) ==
  [kind |-> "RespCreatePkg", objects |-> objs,
   contentType |-> IF enc = EncodingYAML THEN "application/x-yaml"
                   ELSE "application/json; charset=utf-8"]

CreatePkgResults ==
  [objects : SeqsUpTo(Objects, 1), err : {NilErr}] \cup [objects : {<<>>}, err : OtherErrors]

\* s.svc.CreatePkg with the options built from the body, and the response.
CreateCreatePkg ==
  /\ endpoint = "create"
  /\ pc = "createPkg"
  /\ \E ret \in CreatePkgResults :
       /\ calls' = Append(calls, Call("CreatePkg", [opts |-> CreateOpts(reqBody)], ret))
       /\ IF ret.err # NilErr
          THEN HandleHTTPError(ret.err)
          ELSE encResp(StatusOK, RespCreatePkg(ret.objects, encoding))
       /\ pc' = "done"
  /\ UNCHANGED <<request, locals, fnVars, pwVars>>

Next ==
  \/ ApplyDecode
  \/ ApplyOrgID
  \/ ApplyAuth
  \/ ApplyParse
  \/ ApplyDryRun
  \/ ApplyApply
  \/ CreateDecode
  \/ CreateCreatePkg

Spec == Init /\ [][Next]_vars

----------------------------------------------------------------------------
(* PkgRemote.Encoding called directly on every remote within the bounds.   *)

InitEncoding ==
  /\ endpoint = "Encoding"
  /\ pc = "call"
  /\ header = ""
  /\ ctxAuth = ""
  /\ encoding = EncodingJSON
  /\ reqBody = NoReq
  /\ orgID = ""
  /\ userID = ""
  /\ parsedPkg = ""
  /\ sum = ""
  /\ diff = ""
  /\ calls = <<>>
  /\ status = 0
  /\ respBody = NoBody
  /\ errHandled = <<>>
  /\ fnRemote \in PkgRemotes
  /\ fnResult = ""
  /\ basicAuth = NoBasicAuth
  /\ routeID = ""
  /\ putErr = NilErr

CallEncoding ==
  /\ endpoint = "Encoding"
  /\ pc = "call"
  /\ fnResult' = Encoding(fnRemote)
  /\ pc' = "done"
  /\ UNCHANGED <<request, locals, calls, status, respBody, errHandled, fnRemote, pwVars>>

NextEncoding == CallEncoding

SpecEncoding == InitEncoding /\ [][NextEncoding]_vars

----------------------------------------------------------------------------
(* PUT /api/v2/users/:id/password: UserHandler.handlePutUserPassword and   *)
(* the putPassword it calls.                                               *)

Usernames == {"alice", "bob"}
Passwords == {"pw1", "pw2"}

BasicAuths == {NoBasicAuth} \cup [ok : {TRUE}, user : Usernames, pw : Passwords]

InitPassword ==
  /\ endpoint = "putPassword"
  /\ pc = "pwDecode"
  /\ header = ""
  /\ ctxAuth = ""
  /\ encoding = EncodingJSON
  /\ reqBody = NoReq
  /\ orgID = ""
  /\ userID = ""
  /\ parsedPkg = ""
  /\ sum = ""
  /\ diff = ""
  /\ calls = <<>>
  /\ status = 0
  /\ respBody = NoBody
  /\ errHandled = <<>>
  /\ fnRemote = NoRemote
  /\ fnResult = ""
  /\ basicAuth \in BasicAuths
  /\ routeID \in IDStrings
  /\ putErr = NilErr

\* fmt.Errorf("invalid basic auth")
InvalidBasicAuthErr ==
  [kind |-> "error", code |-> "", msg |-> "invalid basic auth", wraps |-> "nil", verrs |-> <<>>]

\* passwordResetRequest
PasswordResetRequest(u, o, n) ==
  [kind |-> "passwordResetRequest", Username |-> u, PasswordOld |-> o, PasswordNew |-> n]

\* decodePasswordResetRequest and the error return of putPassword after it.
PutPasswordDecode ==
  /\ endpoint = "putPassword"
  /\ pc = "pwDecode"
  /\ IF ~basicAuth.ok
     THEN /\ putErr' = InvalidBasicAuthErr
          /\ pc' = "pwReturn"
          /\ UNCHANGED <<reqBody, calls>>
     ELSE \E ret \in [Password : Passwords, err : {NilErr}] \cup [Password : {""}, err : {DecodeErr}] :
            /\ calls' = Append(calls, Call("Decode", [encoding |-> EncodingJSON], ret))
            /\ IF ret.err # NilErr
               THEN /\ putErr' = InfluxError(EInvalid, "", ret.err)
                    /\ pc' = "pwReturn"
                    /\ UNCHANGED reqBody
               ELSE /\ reqBody' = PasswordResetRequest(basicAuth.user, basicAuth.pw, ret.Password)
                    /\ pc' = "pwUserID"
                    /\ UNCHANGED putErr
  /\ UNCHANGED <<request, encoding, orgID, userID, parsedPkg, sum, diff, status, respBody,
                 errHandled, fnVars, basicAuth, routeID>>

\* influxdb.IDFromString(params.ByName("id")); on an error the handler is
\* given an error and the bare return hands the named result err, which
\* holds IDFromString's error, back to the caller.
PutPasswordUserID ==
  /\ endpoint = "putPassword"
  /\ pc = "pwUserID"
  /\ LET r == IDFromString(routeID)
     IN  IF r.err # NilErr
         THEN /\ HandleHTTPError(InfluxError("", "invalid user ID provided in route", NilErr))
              /\ putErr' = r.err
              /\ pc' = "pwReturn"
              /\ UNCHANGED userID
         ELSE /\ userID' = r.id
              /\ pc' = "pwSet"
              /\ UNCHANGED <<putErr, status, respBody, errHandled>>
  /\ UNCHANGED <<request, encoding, reqBody, orgID, parsedPkg, sum, diff, calls, fnVars,
                 basicAuth, routeID>>

\* h.PasswordsService.CompareAndSetPassword and the two returns after it.
PutPasswordSet ==
  /\ endpoint = "putPassword"
  /\ pc = "pwSet"
  /\ \E err \in {NilErr} \cup OtherErrors :
       /\ calls' = Append(calls, Call("CompareAndSetPassword",
                                       [userID |-> userID, old |-> reqBody.PasswordOld,
                                        new |-> reqBody.PasswordNew],
                                       [err |-> err]))
       /\ putErr' = err
  /\ pc' = "pwReturn"
  /\ UNCHANGED <<request, locals, status, respBody, errHandled, fnVars, basicAuth, routeID>>

\* handlePutUserPassword after putPassword has returned.
PutPasswordReturn ==
  /\ endpoint = "putPassword"
  /\ pc = "pwReturn"
  /\ IF putErr # NilErr
     THEN HandleHTTPError(putErr)
     ELSE /\ status' = IF status = 0 THEN StatusNoContent ELSE status
          /\ UNCHANGED <<respBody, errHandled>>
  /\ pc' = "done"
  /\ UNCHANGED <<request, locals, calls, fnVars, pwVars>>

NextPassword ==
  \/ PutPasswordDecode
  \/ PutPasswordUserID
  \/ PutPasswordSet
  \/ PutPasswordReturn

SpecPassword == InitPassword /\ [][NextPassword]_vars

----------------------------------------------------------------------------
(* Properties *)

Done == pc = "done"

IsApplyReq == endpoint = "apply" /\ reqBody.kind = "ReqApplyPkg"

IsCreateReq == endpoint = "create" /\ reqBody.kind = "ReqCreatePkg"

DryRunRet == CallOf("DryRun").ret

ApplyRet == CallOf("Apply").ret

ParseCall == CallOf("Parse")

\* C1: an apply request with dryRun=true never reaches the Apply call,
\* whatever DryRun returns; when DryRun returns no error the response is 200
\* with the dry-run diff and summary and no errors field.
C1_DryRunNeverApplies ==
  (IsApplyReq /\ reqBody.DryRun) =>
    /\ ~Called("Apply")
    /\ (Called("DryRun") /\ DryRunRet.err = NilErr) =>
         /\ Done
         /\ status = StatusOK
         /\ respBody.kind = "RespApplyPkg"
         /\ respBody.diff = DryRunRet.diff
         /\ respBody.summary = DryRunRet.sum
         /\ ~respBody.hasErrors

C1_Witness ==
  /\ IsApplyReq /\ reqBody.DryRun /\ Done
  /\ Called("DryRun") /\ DryRunRet.err = NilErr
  /\ status = StatusOK

\* C2: when DryRun returns a ParseError the request ends with 422 and a body
\* with DryRun's diff and summary and the validation errors of that error,
\* and Apply is not called, whatever the dryRun flag is.
C2_ValidationFailed ==
  (endpoint = "apply" /\ Called("DryRun") /\ DryRunRet.err.kind = "ParseError") =>
    /\ Done
    /\ status = StatusUnprocessableEntity
    /\ respBody.kind = "RespApplyPkg"
    /\ respBody.diff = DryRunRet.diff
    /\ respBody.summary = DryRunRet.sum
    /\ respBody.errors = DryRunRet.err.verrs
    /\ respBody.hasErrors = (DryRunRet.err.verrs # <<>>)
    /\ ~Called("Apply")

C2_Witness ==
  /\ IsApplyReq /\ ~reqBody.DryRun /\ Done
  /\ Called("DryRun") /\ DryRunRet.err.kind = "ParseError"
  /\ Len(DryRunRet.err.verrs) = 2
  /\ respBody.hasErrors

\* C3: when Apply fails with a ParseError the request ends with 201 and a
\* body whose diff is DryRun's, whose summary is Apply's and whose errors are
\* the validation errors of Apply's error.
C3_AppliedWithPartialErrors ==
  (endpoint = "apply" /\ Called("Apply") /\ ApplyRet.err.kind = "ParseError") =>
    /\ Done
    /\ status = StatusCreated
    /\ respBody.kind = "RespApplyPkg"
    /\ respBody.diff = DryRunRet.diff
    /\ respBody.summary = ApplyRet.sum
    /\ respBody.errors = ApplyRet.err.verrs
    /\ respBody.hasErrors = (ApplyRet.err.verrs # <<>>)

C3_Witness ==
  /\ endpoint = "apply" /\ Done
  /\ Called("Apply") /\ ApplyRet.err.kind = "ParseError"
  /\ ApplyRet.err.verrs # <<>>
  /\ ApplyRet.sum # DryRunRet.sum
  /\ respBody.summary = ApplyRet.sum

\* C4: among the 201 responses of the apply endpoint the errors field is
\* present and non-empty exactly when Apply returned a ParseError, and absent
\* exactly when Apply returned no error.
C4_ErrorsFieldDisambiguates ==
  (endpoint = "apply" /\ Done /\ status = StatusCreated) =>
    /\ respBody.hasErrors <=> (ApplyRet.err.kind = "ParseError")
    /\ ~respBody.hasErrors <=> (ApplyRet.err = NilErr)

\* C5 as claimed: once DryRun has returned, its diff and summary are in the
\* final response, whatever the terminal outcome.
C5_AlwaysForwarded ==
  (endpoint = "apply" /\ Done /\ Called("DryRun")) =>
    /\ respBody.kind = "RespApplyPkg"
    /\ respBody.diff = DryRunRet.diff
    /\ respBody.summary = DryRunRet.sum

HardFailed(err) == err # NilErr /\ err.kind # "ParseError"

\* C5 as amended: once DryRun has returned, every response the handler
\* encodes itself (422, 200, 201) carries DryRun's diff; its summary is
\* DryRun's in the 422 and 200 responses and Apply's in the 201 response; when
\* DryRun or Apply fails with an error that is not a ParseError the error goes
\* to the error handler and no diff or summary is encoded.
C5_ForwardedUnlessHardFailure ==
  (endpoint = "apply" /\ Done /\ Called("DryRun")) =>
    IF HardFailed(DryRunRet.err) \/ (Called("Apply") /\ HardFailed(ApplyRet.err))
    THEN /\ respBody = NoBody
         /\ Len(errHandled) = 1
    ELSE /\ respBody.kind = "RespApplyPkg"
         /\ respBody.diff = DryRunRet.diff
         /\ respBody.summary = IF Called("Apply") THEN ApplyRet.sum ELSE DryRunRet.sum

C5_Witness ==
  /\ endpoint = "apply" /\ Done
  /\ Called("Apply") /\ HardFailed(ApplyRet.err)
  /\ respBody = NoBody
  /\ status >= 400

\* C6: an apply request whose orgID is not a well-formed identifier gets a
\* 4xx response, and neither Parse, DryRun nor Apply is called for it.
C6_InvalidOrg ==
  (IsApplyReq /\ reqBody.OrgID \notin WellFormedIDs) =>
    /\ ~Called("Parse")
    /\ ~Called("DryRun")
    /\ ~Called("Apply")
    /\ pc \in {"orgID", "done"}
    /\ Done => status \in 400..499

C6_Witness ==
  /\ IsApplyReq /\ reqBody.OrgID = "not-an-id" /\ Done
  /\ status \in 400..499
  /\ Len(errHandled) = 1 /\ errHandled[1].code = EConflict

\* C7: when resolving the package fails with a ParseError the request ends
\* there with a 400-class error that is classified invalid and wraps the
\* ParseError, and neither DryRun nor Apply is called, for an inline payload
\* and for a remote URL alike.
C7_ParseErrorTerminal ==
  (endpoint = "apply" /\ Called("Parse") /\ ParseCall.ret.err.kind = "ParseError") =>
    /\ Done
    /\ status \in 400..499
    /\ Len(errHandled) = 1
    /\ errHandled[1].code = EInvalid
    /\ errHandled[1].wraps = "ParseError"
    /\ errHandled[1].verrs = ParseCall.ret.err.verrs
    /\ respBody = NoBody
    /\ ~Called("DryRun")
    /\ ~Called("Apply")

C7_Witness ==
  /\ endpoint = "apply" /\ Done
  /\ Called("Parse") /\ ParseCall.ret.err.kind = "ParseError"
  /\ ParseCall.args.source.from = "http"
  /\ ParseCall.ret.err.verrs # <<>>
  /\ status = 400

\* C8: PkgRemote.Encoding lets a recognized content type win over the URL's
\* extension; the extension decides only when the content type is not
\* recognized, and otherwise the result is the source encoding.
C8_ContentTypeWins ==
  (endpoint = "Encoding" /\ Done) => fnResult = EncodingContentTypeFirst(fnRemote)

\* C9: with a non-empty remote URL the package is fetched from that URL and
\* decoded with the remote's derived encoding, the inline payload unused;
\* with an empty remote URL the inline payload is decoded with the
\* header-derived encoding.
C9_SourceSelection ==
  (endpoint = "apply" /\ Called("Parse")) =>
    IF reqBody.Remote.URL # <<>>
    THEN /\ ParseCall.args.source = FromHTTPRequest(reqBody.Remote.URL)
         /\ ParseCall.args.encoding = Encoding(reqBody.Remote)
    ELSE /\ ParseCall.args.source = FromReader(reqBody.RawPkg)
         /\ ParseCall.args.encoding = pkgEncoding(header)

C9_Witness ==
  /\ endpoint = "apply" /\ Called("Parse")
  /\ reqBody.Remote.URL # <<>>
  /\ Encoding(reqBody.Remote) # pkgEncoding(header)
  /\ ParseCall.args.encoding = Encoding(reqBody.Remote)
  /\ ParseCall.args.source.from = "http"

\* C10: on the export endpoint a request whose resources and orgIDs are both
\* empty gets 422 and CreatePkg is not called.
C10_NothingToExport ==
  (IsCreateReq /\ Len(reqBody.Resources) = 0 /\ Len(reqBody.OrgIDs) = 0) =>
    /\ Done
    /\ status = StatusUnprocessableEntity
    /\ ~Called("CreatePkg")

C10_Witness ==
  /\ IsCreateReq /\ Done
  /\ reqBody.Resources = <<>> /\ reqBody.OrgIDs = <<>>
  /\ status = StatusUnprocessableEntity
  /\ Len(errHandled) = 1 /\ errHandled[1].code = EUnprocessableEntity

\* C11: header-based encoding resolution is total and has no error path:
\* exactly "application/x-jsonnet" gives Jsonnet, exactly "text/yml" or
\* "application/x-yaml" gives YAML, every other value and an absent header
\* give JSON.
C11_HeaderEncoding ==
  (endpoint \in {"apply", "create"} /\ pc # "decode") =>
    /\ encoding \in {EncodingJsonnet, EncodingYAML, EncodingJSON}
    /\ (encoding = EncodingJsonnet) <=> (header = "application/x-jsonnet")
    /\ (encoding = EncodingYAML) <=> (header \in {"text/yml", "application/x-yaml"})
    /\ (encoding = EncodingJSON) <=>
         (header \notin {"application/x-jsonnet", "text/yml", "application/x-yaml"})
    /\ (CallOf("Decode").ret.err = NilErr /\ pc \in {"orgID", "createPkg"}) =>
         (errHandled = <<>> /\ status = 0)

C11_Witness ==
  /\ endpoint = "apply" /\ pc = "orgID"
  /\ header = "TEXT/YML"
  /\ encoding = EncodingJSON
  /\ errHandled = <<>>

FnNames == [i \in DOMAIN calls |-> calls[i].fn]

ApplySteps == <<"Decode", "Parse", "DryRun", "Apply">>

IdentityResolved ==
  /\ reqBody.kind = "ReqApplyPkg"
  /\ reqBody.OrgID \in WellFormedIDs
  /\ orgID = reqBody.OrgID
  /\ ctxAuth # ""
  /\ userID = ctxAuth

PkgResolved == Called("Parse") /\ ParseCall.ret.err = NilErr

ApplyDue ==
  /\ CallOf("Decode").ret.err = NilErr
  /\ reqBody.OrgID \in WellFormedIDs
  /\ ctxAuth # ""
  /\ PkgResolved
  /\ Called("DryRun") /\ DryRunRet.err = NilErr
  /\ ~reqBody.DryRun

\* C12: within one apply request the collaborator calls are made in the
\* order decode, parse, dry-run, apply, each at most once; Parse is called only
\* after the org id and the user id are resolved, DryRun only after identity
\* and the package are resolved, and Apply is called if and only if the body
\* decoded, the org id parsed, an authorizer was present, the package
\* resolved, DryRun returned no error of any kind and dryRun is false.
C12_StrictSequence ==
  (endpoint = "apply" /\ pc # "decode") =>
    /\ Len(calls) <= Len(ApplySteps)
    /\ FnNames = SubSeq(ApplySteps, 1, Len(calls))
    /\ Called("Parse") => IdentityResolved
    /\ Called("DryRun") =>
         /\ IdentityResolved
         /\ PkgResolved
         /\ CallOf("DryRun").args =
              [orgID |-> reqBody.OrgID, userID |-> ctxAuth, pkg |-> ParseCall.ret.pkg]
    /\ Called("Apply") => ApplyDue
    /\ (Done /\ ApplyDue) => Called("Apply")

C12_Witness ==
  /\ endpoint = "apply" /\ Done
  /\ FnNames = ApplySteps
  /\ ApplyDue
  /\ status = StatusCreated

CreatePkgCall == CallOf("CreatePkg")

IsWellFormedID(x) == x \in WellFormedIDs

WellFormedOrgIDs(r) == SelectSeq(r.OrgIDs, IsWellFormedID)

AllOrgIDsMalformed(r) ==
  /\ r.OrgIDs # <<>>
  /\ \A i \in DOMAIN r.OrgIDs : r.OrgIDs[i] \notin WellFormedIDs

\* C13: on the export endpoint an org id that is not a well-formed
\* identifier is skipped without an error: CreatePkg gets the resources
\* option and one per-org option for each well-formed id, in order; a request
\* with no resources whose orgIDs are all malformed passes the emptiness
\* check and still calls CreatePkg, with the resources option alone.
C13_MalformedOrgIDsSkipped ==
  IsCreateReq =>
    /\ Called("CreatePkg") =>
         /\ Len(CreatePkgCall.args.opts) = 1 + Len(WellFormedOrgIDs(reqBody))
         /\ CreatePkgCall.args.opts[1] = CreateWithExistingResources(reqBody.Resources)
         /\ \A i \in DOMAIN WellFormedOrgIDs(reqBody) :
              CreatePkgCall.args.opts[i + 1] =
                CreateWithAllOrgResources(WellFormedOrgIDs(reqBody)[i])
    /\ (reqBody.Resources = <<>> /\ AllOrgIDsMalformed(reqBody)) =>
         /\ pc \in {"createPkg", "done"}
         /\ pc = "createPkg" => (errHandled = <<>> /\ status = 0)
         /\ Done =>
              /\ Called("CreatePkg")
              /\ CreatePkgCall.args.opts = <<CreateWithExistingResources(<<>>)>>
              /\ CreatePkgCall.ret.err = NilErr => status = StatusOK
              /\ CreatePkgCall.ret.err # NilErr => errHandled = <<CreatePkgCall.ret.err>>

C13_Witness ==
  /\ IsCreateReq /\ Done
  /\ reqBody.Resources = <<>>
  /\ reqBody.OrgIDs = <<"not-an-id", "">>
  /\ Called("CreatePkg")
  /\ Len(CreatePkgCall.args.opts) = 1
  /\ status = StatusOK

PutPasswordFailed ==
  \/ ~basicAuth.ok
  \/ (Called("Decode") /\ CallOf("Decode").ret.err # NilErr)
  \/ routeID \notin WellFormedIDs
  \/ (Called("CompareAndSetPassword") /\ CallOf("CompareAndSetPassword").ret.err # NilErr)

\* C14: a password-update request writes exactly one response: on every
\* failure path (bad basic auth, undecodable body, invalid user id in the
\* route, CompareAndSetPassword error) the error handler is invoked exactly
\* once, on success it is not invoked and 204 is written, and
\* CompareAndSetPassword is never called when the user id is invalid.
C14_ExactlyOneResponse ==
  (endpoint = "putPassword") =>
    /\ routeID \notin WellFormedIDs => ~Called("CompareAndSetPassword")
    /\ Done =>
         IF PutPasswordFailed
         THEN Len(errHandled) = 1
         ELSE errHandled = <<>> /\ status = StatusNoContent

====
